---- MODULE Spec2Model ----
(***************************************************************************)
(* A model of the dsfs numeric utilities: the free functions over plain    *)
(* lists in algebra.py and statistics.py, and the Vector class of          *)
(* n_tuples.py.                                                            *)
(*                                                                         *)
(* Python lists are sequences; a Python index k is position k + 1.         *)
(* Numbers are exact: ints are integers, and the result of a true division *)
(* is the reduced fraction [num, den] (floating-point rounding is not      *)
(* modelled).  A call ends in an outcome: [kind |-> "ok", val] or          *)
(* [kind |-> "error", err], where err names the kind of the exception      *)
(* that the code raises.                                                   *)
(***************************************************************************)
EXTENDS Integers, Sequences, FiniteSets, TLC

VARIABLES
    v,          \* first vector argument (algebra.py)
    w,          \* second vector argument (algebra.py)
    vectors,    \* list-of-vectors argument (algebra.py)
    A,          \* matrix argument (algebra.py)
    idx,        \* row / column index argument (algebra.py)
    mk,         \* arguments of make_matrix: rows, cols and the entry function
    xs,         \* the caller's sample list (statistics.py)
    p,          \* quantile argument, the fraction p.num / p.den
    heap,       \* Vector objects: id -> [items, length] (n_tuples.py)
    lst,        \* the caller's list object of Vector ids passed to vector_sum
    placed,     \* the Vector ids the caller put into that list
    ret         \* the last call: its name, its arguments before it, its outcome

vars == <<v, w, vectors, A, idx, mk, xs, p, heap, lst, placed, ret>>

----------------------------------------------------------------------------
(* Bounds *)

MaxLen == 2         \* longest vector argument of the algebra functions
MaxVal == 1         \* vector entries range over -1 .. MaxVal
MaxDim == 2         \* most rows / columns of a matrix
MaxN == 5           \* longest sample
MaxX == 2           \* sample values range over 0 .. MaxX
PDen == 4           \* quantile arguments are multiples of 1 / PDen
MaxItems == 2       \* longest items list of a Vector object
MaxAbs == 1         \* in-place results are kept within -MaxAbs .. MaxAbs
MaxList == 2        \* longest list the caller passes to Vector.vector_sum
MaxCalls == 2       \* most calls of Vector.vector_sum with one list object

Vals == (-1) .. MaxVal

\* the sequences over S of length at most n
SeqUpTo(S, n) == UNION {[1 .. k -> S] : k \in 0 .. n}

----------------------------------------------------------------------------
(* Outcomes and Python primitives *)

NoVal == <<>>

Ok(x) == [kind |-> "ok", err |-> "none", val |-> x]

\* AssertionError 'vectors must be the same length' is the length-mismatch
\* error, AssertionError 'no vectors provided' and max() of an empty sequence
\* (ValueError) the empty-input error, IndexError the index-out-of-range
\* error; ZeroDivisionError is none of the three.
Err(e) == [kind |-> "error", err |-> e, val |-> NoVal]

NoCall == [op |-> "none"]

Min(a, b) == IF a <= b THEN a ELSE b

\* zip(a, b): pairs up to the shorter argument
zip(a, b) == [k \in 1 .. Min(Len(a), Len(b)) |-> <<a[k], b[k]>>]

RECURSIVE sum(_)
\* the builtin sum of a list of numbers
sum(s) == IF s = <<>> THEN 0 ELSE s[1] + sum(Tail(s))

----------------------------------------------------------------------------
(* algebra.py: vectors *)

add_nocheck(a, b) ==
    Ok([k \in 1 .. Min(Len(a), Len(b)) |-> zip(a, b)[k][1] + zip(a, b)[k][2]])

add(a, b) ==
    IF Len(a) # Len(b) THEN Err("LengthMismatch")
    ELSE Ok([k \in 1 .. Len(zip(a, b)) |-> zip(a, b)[k][1] + zip(a, b)[k][2]])

subtract_swapped(a, b) ==
    IF Len(a) # Len(b) THEN Err("LengthMismatch")
    ELSE Ok([k \in 1 .. Len(zip(a, b)) |-> zip(a, b)[k][2] - zip(a, b)[k][1]])

subtract(a, b) ==
    IF Len(a) # Len(b) THEN Err("LengthMismatch")
    ELSE Ok([k \in 1 .. Len(zip(a, b)) |-> zip(a, b)[k][1] - zip(a, b)[k][2]])

dot(a, b) ==
    IF Len(a) # Len(b) THEN Err("LengthMismatch")
    ELSE Ok(sum([k \in 1 .. Len(zip(a, b)) |-> zip(a, b)[k][1] * zip(a, b)[k][2]]))

\* vector_sum: a non-empty list of vectors of one length, summed componentwise
vector_sum(vs) ==
    IF vs = <<>> THEN Err("EmptyInput")
    ELSE IF \E k \in 1 .. Len(vs) : Len(vs[k]) # Len(vs[1]) THEN Err("LengthMismatch")
    ELSE Ok([i \in 1 .. Len(vs[1]) |-> sum([k \in 1 .. Len(vs) |-> vs[k][i]])])

RECURSIVE GCD(_, _)
GCD(a, b) == IF b = 0 THEN a ELSE GCD(b, a % b)

Abs(a) == IF a < 0 THEN -a ELSE a

\* the value of n / d for d # 0, as a reduced fraction with a positive denominator
Frac(n, d) ==
    LET g == GCD(Abs(n), Abs(d))
        sgn == IF d < 0 THEN -1 ELSE 1
    IN  [num |-> sgn * (n \div g), den |-> Abs(d) \div g]

\* true division: ZeroDivisionError for a zero divisor
TrueDiv(n, d) == IF d = 0 THEN Err("ZeroDivision") ELSE Ok(Frac(n, d))

\* scalar_multiply by the fraction s of a vector of integers
scalar_multiply(s, a) == [k \in 1 .. Len(a) |-> Frac(s.num * a[k], s.den)]

\* vector_mean: 1/n is evaluated first, then vector_sum(vectors)
vector_mean(vs) ==
    LET n == Len(vs)
        inv == TrueDiv(1, n)
    IN  IF inv.kind = "error" THEN inv
        ELSE IF vector_sum(vs).kind = "error" THEN vector_sum(vs)
        ELSE Ok(scalar_multiply(inv.val, vector_sum(vs).val))

----------------------------------------------------------------------------
(* algebra.py: matrices *)

\* s[k] for a list s and an integer k: a negative k counts from the end,
\* and an index outside -len .. len - 1 is an IndexError
PyIndex(s, k) ==
    IF 0 <= k /\ k < Len(s) THEN Ok(s[k + 1])
    ELSE IF k < 0 /\ -Len(s) <= k THEN Ok(s[Len(s) + k + 1])
    ELSE Err("IndexOutOfRange")

shape(M) == <<Len(M), IF M # <<>> THEN Len(M[1]) ELSE 0>>

get_row(M, k) == PyIndex(M, k)

get_column(M, k) ==
    IF \E r \in 1 .. Len(M) : PyIndex(M[r], k).kind = "error"
    THEN Err("IndexOutOfRange")
    ELSE Ok([r \in 1 .. Len(M) |-> PyIndex(M[r], k).val])

\* range(n) as the 0-based indices, empty for n <= 0
range(n) == 0 .. (n - 1)

make_matrix_one_based(num_rows, num_cols, entry_fn) ==
    [i \in 1 .. num_rows |-> [j \in 1 .. num_cols |-> entry_fn[i, j]]]

make_matrix(num_rows, num_cols, entry_fn) ==
    [i \in 1 .. Cardinality(range(num_rows)) |->
        [j \in 1 .. Cardinality(range(num_cols)) |-> entry_fn[i - 1, j - 1]]]

\* the entry functions are defined on 0 .. MaxDim in both arguments
EntryDom == (0 .. MaxDim) \X (0 .. MaxDim)

identity_fn == [ij \in EntryDom |-> IF ij[1] = ij[2] THEN 1 ELSE 0]

identity_matrix(n) == make_matrix(n, n, identity_fn)

----------------------------------------------------------------------------
(* statistics.py.  A function of a caller's list yields [out, arg]: the     *)
(* outcome of the call and the contents of the caller's list after it.     *)

RECURSIVE Insert(_, _)
\* x put into the ascending list s, after the elements equal to it
Insert(x, s) ==
    IF s = <<>> THEN <<x>>
    ELSE IF x < s[1] THEN <<x>> \o s
    ELSE <<s[1]>> \o Insert(x, Tail(s))

RECURSIVE sorted(_)
\* the builtin sorted: a new list, ascending
sorted(s) == IF s = <<>> THEN <<>> ELSE Insert(s[Len(s)], sorted(SubSeq(s, 1, Len(s) - 1)))

\* int() of the fraction n / d, d > 0: truncation towards zero
int(n, d) == IF n >= 0 THEN n \div d ELSE -((-n) \div d)

\* floor division by a positive integer
FloorDiv(n, d) == n \div d

mean(l) ==
    [out |-> TrueDiv(sum(l), Len(l)), arg |-> l]

_median_odd(l) ==
    [out |-> PyIndex(sorted(l), FloorDiv(Len(l), 2)), arg |-> l]

_median_even_low(l) ==
    LET sorted_xs == sorted(l)
        hi_midpoint == FloorDiv(Len(l), 2)
        lo == PyIndex(sorted_xs, hi_midpoint - 1)
    IN  [out |-> IF lo.kind = "error" THEN lo ELSE TrueDiv(lo.val + lo.val, 2),
         arg |-> l]

_median_even(l) ==
    LET sorted_xs == sorted(l)
        hi_midpoint == FloorDiv(Len(l), 2)
        lo == PyIndex(sorted_xs, hi_midpoint - 1)
        hi == PyIndex(sorted_xs, hi_midpoint)
    IN  [out |-> IF lo.kind = "error" THEN lo
                 ELSE IF hi.kind = "error" THEN hi
                 ELSE TrueDiv(lo.val + hi.val, 2),
         arg |-> l]

median(l) == IF Len(l) % 2 = 0 THEN _median_even(l) ELSE _median_odd(l)

quantile_sort_in_place(l, q) ==
    [out |-> PyIndex(sorted(l), int(q.num * Len(l), q.den)), arg |-> sorted(l)]

quantile(l, q) ==
    LET p_index == int(q.num * Len(l), q.den)
    IN  [out |-> PyIndex(sorted(l), p_index), arg |-> l]

RECURSIVE CounterKeys(_)
\* the keys of Counter(l), in the order of their first occurrence
CounterKeys(l) ==
    IF l = <<>> THEN <<>>
    ELSE LET front == CounterKeys(SubSeq(l, 1, Len(l) - 1))
             x == l[Len(l)]
         IN  IF \E k \in 1 .. Len(front) : front[k] = x THEN front
             ELSE Append(front, x)

\* Counter(l): the list of <<key, count>> pairs
Counter(l) ==
    [k \in 1 .. Len(CounterKeys(l)) |->
        <<CounterKeys(l)[k],
          Cardinality({i \in 1 .. Len(l) : l[i] = CounterKeys(l)[k]})>>]

\* the builtin max: ValueError on an empty sequence
max(s) ==
    IF s = <<>> THEN Err("EmptyInput")
    ELSE Ok(CHOOSE m \in {s[k] : k \in 1 .. Len(s)} :
                \A k \in 1 .. Len(s) : s[k] <= m)

RECURSIVE Select(_, _)
\* the pairs of c whose count is n, keys only, in order
Select(c, n) ==
    IF c = <<>> THEN <<>>
    ELSE IF c[1][2] = n THEN <<c[1][1]>> \o Select(Tail(c), n)
    ELSE Select(Tail(c), n)

RECURSIVE SelectAtLeast(_, _)
SelectAtLeast(c, n) ==
    IF c = <<>> THEN <<>>
    ELSE IF 2 * c[1][2] >= n THEN <<c[1][1]>> \o SelectAtLeast(Tail(c), n)
    ELSE SelectAtLeast(Tail(c), n)

mode_at_least_half(l) ==
    LET counts == Counter(l)
        max_count == max([k \in 1 .. Len(counts) |-> counts[k][2]])
    IN  [out |-> IF max_count.kind = "error" THEN max_count
                 ELSE Ok(SelectAtLeast(counts, max_count.val)),
         arg |-> l]

mode(l) ==
    LET counts == Counter(l)
        max_count == max([k \in 1 .. Len(counts) |-> counts[k][2]])
    IN  [out |-> IF max_count.kind = "error" THEN max_count
                 ELSE Ok(Select(counts, max_count.val)),
         arg |-> l]

----------------------------------------------------------------------------
(* n_tuples.py: the Vector class.  A method yields the outcome of the call  *)
(* and the heap (and list object) after it.                                *)

Objs == {"a", "b"}

\* Vector.__init__
Vector(items) == [items |-> items, length |-> Len(items)]

\* Vector.__len__
len(o) == o.length

Vector_add_always_inplace(h, self, other, inplace) ==
    IF len(h[self]) # len(h[other]) THEN [out |-> Err("LengthMismatch"), heap |-> h]
    ELSE LET z == zip(h[self].items, h[other].items)
             sum_of_elements == [k \in 1 .. Len(z) |-> z[k][1] + z[k][2]]
         IN  [out |-> IF inplace THEN Ok("None") ELSE Ok(Vector(sum_of_elements)),
              heap |-> [h EXCEPT ![self].items = sum_of_elements]]

Vector_add(h, self, other, inplace) ==
    IF len(h[self]) # len(h[other]) THEN [out |-> Err("LengthMismatch"), heap |-> h]
    ELSE LET z == zip(h[self].items, h[other].items)
             sum_of_elements == [k \in 1 .. Len(z) |-> z[k][1] + z[k][2]]
         IN  IF inplace
             THEN [out |-> Ok("None"),
                   heap |-> [h EXCEPT ![self].items = sum_of_elements]]
             ELSE [out |-> Ok(Vector(sum_of_elements)), heap |-> h]

Vector_subtract(h, self, other, inplace) ==
    IF len(h[self]) # len(h[other]) THEN [out |-> Err("LengthMismatch"), heap |-> h]
    ELSE LET z == zip(h[self].items, h[other].items)
             sub_of_elements == [k \in 1 .. Len(z) |-> z[k][1] - z[k][2]]
         IN  IF inplace
             THEN [out |-> Ok("None"),
                   heap |-> [h EXCEPT ![self].items = sub_of_elements]]
             ELSE [out |-> Ok(Vector(sub_of_elements)), heap |-> h]

\* Vector.vector_sum: self is appended to the caller's list before the sum
Vector_vector_sum(h, vs, self, inplace) ==
    IF vs = <<>> THEN [out |-> Err("EmptyInput"), heap |-> h, vectors |-> vs]
    ELSE LET appended == Append(vs, self)
             num_elements == len(h[appended[1]])
             sum_of_all ==
                 [i \in 1 .. Cardinality(range(num_elements)) |->
                     sum([k \in 1 .. Len(appended) |-> h[appended[k]].items[i]])]
         IN  IF \E k \in 1 .. Len(appended) : len(h[appended[k]]) # num_elements
             THEN [out |-> Err("LengthMismatch"), heap |-> h, vectors |-> appended]
             ELSE IF inplace
             THEN [out |-> Ok("None"),
                   heap |-> [h EXCEPT ![self].items = sum_of_all],
                   vectors |-> appended]
             ELSE [out |-> Ok(Vector(sum_of_all)), heap |-> h, vectors |-> appended]

----------------------------------------------------------------------------
(* Inputs *)

VectorArgs == SeqUpTo(Vals, MaxLen)

Matrices == UNION {[1 .. r -> [1 .. c -> {0, 1}]] : r \in 0 .. MaxDim, c \in 0 .. MaxDim}

Indexes == (-(MaxDim + 1)) .. (MaxDim + 1)

EntryFns ==
    {[ij \in EntryDom |-> a * ij[1] + b * ij[2] + (IF ij[1] = ij[2] THEN c ELSE 0)] :
        a \in 0 .. 1, b \in 0 .. 1, c \in 0 .. 1}

MakeArgs == [num_rows : 0 .. MaxDim, num_cols : 0 .. MaxDim, entry_fn : EntryFns]

Samples == SeqUpTo(0 .. MaxX, MaxN)

Fractions == {[num |-> k, den |-> PDen] : k \in (-1) .. (PDen + 1)}

Heaps(S) == [Objs -> {Vector(s) : s \in SeqUpTo(S, MaxItems)}]

NoAlgebra == v = <<>> /\ w = <<>> /\ vectors = <<>>
NoMatrix == /\ A = <<>> /\ idx = 0
            /\ mk = [num_rows |-> 0, num_cols |-> 0, entry_fn |-> identity_fn]
NoStats == xs = <<>> /\ p = [num |-> 0, den |-> PDen]
NoVector == heap = [o \in Objs |-> Vector(<<>>)] /\ lst = <<>> /\ placed = <<>>

----------------------------------------------------------------------------
(* Calls of the vector functions of algebra.py on the arguments v, w, vectors *)

InitAlgebra ==
    /\ v \in VectorArgs
    /\ w \in VectorArgs
    /\ vectors \in {<<>>, <<v>>, <<v, w>>, <<w, v, w>>}
    /\ NoMatrix /\ NoStats /\ NoVector
    /\ ret = NoCall

Call_add ==
    /\ ret' = [op |-> "add", out |-> add(v, w)]
    /\ UNCHANGED <<v, w, vectors, A, idx, mk, xs, p, heap, lst, placed>>

Call_subtract ==
    /\ ret' = [op |-> "subtract", out |-> subtract(v, w)]
    /\ UNCHANGED <<v, w, vectors, A, idx, mk, xs, p, heap, lst, placed>>

Call_dot ==
    /\ ret' = [op |-> "dot", out |-> dot(v, w)]
    /\ UNCHANGED <<v, w, vectors, A, idx, mk, xs, p, heap, lst, placed>>

\* subtract(add(v, w), w)
Call_subtract_add ==
    /\ ret' = [op |-> "subtract_add",
               out |-> IF add(v, w).kind = "error" THEN add(v, w)
                       ELSE subtract(add(v, w).val, w)]
    /\ UNCHANGED <<v, w, vectors, A, idx, mk, xs, p, heap, lst, placed>>

Call_vector_sum ==
    /\ ret' = [op |-> "vector_sum", out |-> vector_sum(vectors)]
    /\ UNCHANGED <<v, w, vectors, A, idx, mk, xs, p, heap, lst, placed>>

Call_vector_mean ==
    /\ ret' = [op |-> "vector_mean", out |-> vector_mean(vectors)]
    /\ UNCHANGED <<v, w, vectors, A, idx, mk, xs, p, heap, lst, placed>>

NextAlgebra ==
    \/ Call_add
    \/ Call_subtract
    \/ Call_dot
    \/ Call_subtract_add
    \/ Call_vector_sum
    \/ Call_vector_mean

SpecAlgebra == InitAlgebra /\ [][NextAlgebra]_vars

----------------------------------------------------------------------------
(* Calls of the matrix functions of algebra.py *)

InitMatrix ==
    /\ \/ A \in Matrices /\ idx \in Indexes
          /\ mk = [num_rows |-> 0, num_cols |-> 0, entry_fn |-> identity_fn]
       \/ A = <<>> /\ idx = 0 /\ mk \in MakeArgs
    /\ NoAlgebra /\ NoStats /\ NoVector
    /\ ret = NoCall

Call_shape ==
    /\ ret' = [op |-> "shape", out |-> Ok(shape(A))]
    /\ UNCHANGED <<v, w, vectors, A, idx, mk, xs, p, heap, lst, placed>>

Call_get_row ==
    /\ ret' = [op |-> "get_row", out |-> get_row(A, idx)]
    /\ UNCHANGED <<v, w, vectors, A, idx, mk, xs, p, heap, lst, placed>>

Call_get_column ==
    /\ ret' = [op |-> "get_column", out |-> get_column(A, idx)]
    /\ UNCHANGED <<v, w, vectors, A, idx, mk, xs, p, heap, lst, placed>>

\* make_matrix(rows, cols, f) and the shape() of its result
Call_make_matrix ==
    /\ ret' = [op |-> "make_matrix",
               out |-> Ok(make_matrix(mk.num_rows, mk.num_cols, mk.entry_fn)),
               shape |-> shape(make_matrix(mk.num_rows, mk.num_cols, mk.entry_fn))]
    /\ UNCHANGED <<v, w, vectors, A, idx, mk, xs, p, heap, lst, placed>>

\* identity_matrix(n) for n = rows, and the shape() of its result
Call_identity_matrix ==
    /\ ret' = [op |-> "identity_matrix",
               out |-> Ok(identity_matrix(mk.num_rows)),
               shape |-> shape(identity_matrix(mk.num_rows))]
    /\ UNCHANGED <<v, w, vectors, A, idx, mk, xs, p, heap, lst, placed>>

NextMatrix ==
    \/ Call_shape
    \/ Call_get_row
    \/ Call_get_column
    \/ Call_make_matrix
    \/ Call_identity_matrix

SpecMatrix == InitMatrix /\ [][NextMatrix]_vars

----------------------------------------------------------------------------
(* Calls of the functions of statistics.py on the caller's list xs *)

InitStats ==
    /\ xs \in Samples
    /\ p \in Fractions
    /\ NoAlgebra /\ NoMatrix /\ NoVector
    /\ ret = NoCall

Call_mean ==
    /\ ret' = [op |-> "mean", before |-> xs, out |-> mean(xs).out]
    /\ xs' = mean(xs).arg
    /\ UNCHANGED <<v, w, vectors, A, idx, mk, p, heap, lst, placed>>

Call_median ==
    /\ ret' = [op |-> "median", before |-> xs, out |-> median(xs).out]
    /\ xs' = median(xs).arg
    /\ UNCHANGED <<v, w, vectors, A, idx, mk, p, heap, lst, placed>>

Call_quantile ==
    /\ ret' = [op |-> "quantile", before |-> xs, out |-> quantile(xs, p).out]
    /\ xs' = quantile(xs, p).arg
    /\ UNCHANGED <<v, w, vectors, A, idx, mk, p, heap, lst, placed>>

Call_mode ==
    /\ ret' = [op |-> "mode", before |-> xs, out |-> mode(xs).out]
    /\ xs' = mode(xs).arg
    /\ UNCHANGED <<v, w, vectors, A, idx, mk, p, heap, lst, placed>>

NextStats ==
    \/ Call_mean
    \/ Call_median
    \/ Call_quantile
    \/ Call_mode

SpecStats == InitStats /\ [][NextStats]_vars

----------------------------------------------------------------------------
(* Sequences of Vector.add / Vector.subtract calls on the objects of the heap *)

InCap(h) == \A o \in Objs : \A k \in 1 .. Len(h[o].items) : Abs(h[o].items[k]) <= MaxAbs

InitVector ==
    /\ heap \in Heaps(0 .. MaxAbs)
    /\ lst = <<>> /\ placed = <<>>
    /\ NoAlgebra /\ NoMatrix /\ NoStats
    /\ ret = NoCall

Call_Vector_add(self, other, inplace) ==
    /\ InCap(Vector_add(heap, self, other, inplace).heap)
    /\ ret' = [op |-> "Vector.add", self |-> self, other |-> other,
               inplace |-> inplace, before |-> heap,
               out |-> Vector_add(heap, self, other, inplace).out]
    /\ heap' = Vector_add(heap, self, other, inplace).heap
    /\ UNCHANGED <<v, w, vectors, A, idx, mk, xs, p, lst, placed>>

Call_Vector_subtract(self, other, inplace) ==
    /\ InCap(Vector_subtract(heap, self, other, inplace).heap)
    /\ ret' = [op |-> "Vector.subtract", self |-> self, other |-> other,
               inplace |-> inplace, before |-> heap,
               out |-> Vector_subtract(heap, self, other, inplace).out]
    /\ heap' = Vector_subtract(heap, self, other, inplace).heap
    /\ UNCHANGED <<v, w, vectors, A, idx, mk, xs, p, lst, placed>>

NextVector ==
    \/ \E self \in Objs, other \in Objs, inplace \in BOOLEAN :
           Call_Vector_add(self, other, inplace)
    \/ \E self \in Objs, other \in Objs, inplace \in BOOLEAN :
           Call_Vector_subtract(self, other, inplace)

SpecVector == InitVector /\ [][NextVector]_vars

----------------------------------------------------------------------------
(* Calls of Vector.vector_sum with the caller's list object lst *)

InitVectorSum ==
    /\ heap \in Heaps(0 .. 1)
    /\ lst \in SeqUpTo(Objs, MaxList)
    /\ placed = lst
    /\ NoAlgebra /\ NoMatrix /\ NoStats
    /\ ret = NoCall

Call_Vector_vector_sum(self, inplace) ==
    /\ Len(lst) < Len(placed) + MaxCalls
    /\ ret' = [op |-> "Vector.vector_sum", self |-> self, inplace |-> inplace,
               before |-> heap, list_before |-> lst,
               out |-> Vector_vector_sum(heap, lst, self, inplace).out]
    /\ heap' = Vector_vector_sum(heap, lst, self, inplace).heap
    /\ lst' = Vector_vector_sum(heap, lst, self, inplace).vectors
    /\ UNCHANGED <<v, w, vectors, A, idx, mk, xs, p, placed>>

NextVectorSum ==
    \E self \in Objs, inplace \in BOOLEAN : Call_Vector_vector_sum(self, inplace)

SpecVectorSum == InitVectorSum /\ [][NextVectorSum]_vars

----------------------------------------------------------------------------
(* Calls of the two averaging functions, mean on xs and vector_mean on vectors *)

InitAverages ==
    /\ xs \in Samples
    /\ vectors \in SeqUpTo(SeqUpTo(0 .. 1, 1), MaxList)
    /\ v = <<>> /\ w = <<>> /\ p = [num |-> 0, den |-> PDen]
    /\ NoMatrix /\ NoVector
    /\ ret = NoCall

NextAverages ==
    \/ Call_mean
    \/ Call_vector_mean

SpecAverages == InitAverages /\ [][NextAverages]_vars

----------------------------------------------------------------------------
(* Properties *)

\* x is at 0-based position k of the ascending sort of l
OrderStat(l, k, x) ==
    /\ \E i \in 1 .. Len(l) : l[i] = x
    /\ Cardinality({i \in 1 .. Len(l) : l[i] < x}) <= k
    /\ k < Cardinality({i \in 1 .. Len(l) : l[i] <= x})

Occurrences(l, x) == Cardinality({i \in 1 .. Len(l) : l[i] = x})

\* C1: add, subtract and dot of vectors of different lengths end in the
\* length-mismatch error and produce no value.
C1_LengthMismatch ==
    (ret.op \in {"add", "subtract", "dot"} /\ Len(v) # Len(w)) =>
        /\ ret.out.kind = "error"
        /\ ret.out.err = "LengthMismatch"
        /\ ret.out.val = <<>>

C1_Witness ==
    /\ ret.op = "add"
    /\ Len(v) = 1 /\ Len(w) = 2
    /\ ret.out.err = "LengthMismatch"

\* C2: mean([]) and vector_mean([]) fail with the empty-input error, not
\* with a division by zero.
C2_EmptyInput ==
    /\ (ret.op = "mean" /\ ret.before = <<>>) =>
           (ret.out.kind = "error" /\ ret.out.err = "EmptyInput")
    /\ (ret.op = "vector_mean" /\ vectors = <<>>) =>
           (ret.out.kind = "error" /\ ret.out.err = "EmptyInput")

\* C3: get_row fails with the index error for every i outside 0 .. r-1 and
\* get_column for every j outside 0 .. c-1 (negative indices and a matrix
\* with no rows included); for valid indices they return row i and column j.
C3_IndexOutOfRange ==
    /\ ret.op = "get_row" =>
           IF idx \in 0 .. (Len(A) - 1)
           THEN ret.out.kind = "ok" /\ ret.out.val = A[idx + 1]
           ELSE ret.out.kind = "error" /\ ret.out.err = "IndexOutOfRange"
    /\ ret.op = "get_column" =>
           IF idx \in 0 .. ((IF A = <<>> THEN 0 ELSE Len(A[1])) - 1)
           THEN /\ ret.out.kind = "ok"
                /\ ret.out.val = [r \in 1 .. Len(A) |-> A[r][idx + 1]]
           ELSE ret.out.kind = "error" /\ ret.out.err = "IndexOutOfRange"

\* C4: for a non-empty sample of length n and 0 <= p < 1, quantile returns
\* the element at index floor(p * n) of the ascending sort and leaves the
\* sample in its order; for p = 1 it fails with the index error.
C4_Quantile ==
    (ret.op = "quantile" /\ ret.before # <<>> /\ 0 <= p.num /\ p.num <= p.den) =>
        /\ xs = ret.before
        /\ p.num < p.den =>
               /\ ret.out.kind = "ok"
               /\ OrderStat(ret.before, (p.num * Len(ret.before)) \div p.den, ret.out.val)
        /\ p.num = p.den =>
               /\ ret.out.kind = "error"
               /\ ret.out.err = "IndexOutOfRange"

C4_Witness ==
    /\ ret.op = "quantile"
    /\ ret.before = <<2, 0, 1>>
    /\ p.num = 3 /\ p.den = 4
    /\ ret.out.kind = "ok" /\ ret.out.val = 2
    /\ xs = <<2, 0, 1>>

\* C5: the median of a non-empty sample is the middle element of its
\* ascending sort for an odd length and half the sum of the two middle
\* elements for an even length, and the sample keeps its order.
C5_Median ==
    (ret.op = "median" /\ ret.before # <<>>) =>
        LET n == Len(ret.before) IN
        /\ xs = ret.before
        /\ ret.out.kind = "ok"
        /\ n % 2 = 1 => OrderStat(ret.before, n \div 2, ret.out.val)
        /\ n % 2 = 0 =>
               \E i, j \in 1 .. n :
                   /\ OrderStat(ret.before, (n \div 2) - 1, ret.before[i])
                   /\ OrderStat(ret.before, n \div 2, ret.before[j])
                   /\ ret.out.val.den > 0
                   /\ 2 * ret.out.val.num = (ret.before[i] + ret.before[j]) * ret.out.val.den

C5_Witness ==
    /\ ret.op = "median"
    /\ ret.before = <<2, 0, 1, 0>>
    /\ ret.out.kind = "ok" /\ ret.out.val = [num |-> 1, den |-> 2]
    /\ xs = <<2, 0, 1, 0>>

\* C6: the mode of a non-empty sample holds exactly the values with the
\* maximum occurrence count, each once; the mode of an empty sample fails
\* with the empty-input error and has no value.
C6_Mode ==
    ret.op = "mode" =>
        IF ret.before = <<>>
        THEN ret.out.kind = "error" /\ ret.out.err = "EmptyInput" /\ ret.out.val = <<>>
        ELSE /\ ret.out.kind = "ok"
             /\ \A x \in 0 .. MaxX :
                    Occurrences(ret.out.val, x) =
                        IF /\ Occurrences(ret.before, x) > 0
                           /\ \A y \in 0 .. MaxX :
                                  Occurrences(ret.before, y) <= Occurrences(ret.before, x)
                        THEN 1 ELSE 0
             /\ \A k \in 1 .. Len(ret.out.val) : ret.out.val[k] \in 0 .. MaxX

C6_Witness ==
    /\ ret.op = "mode"
    /\ ret.before = <<1, 0, 2, 2, 1>>
    /\ ret.out.kind = "ok" /\ ret.out.val = <<1, 2>>

\* C7 as stated: for all rows, cols >= 0 the result of make_matrix has
\* shape (rows, cols) and entry f(i, j) at every (i, j).
C7_ShapeRowsCols ==
    ret.op = "make_matrix" =>
        /\ ret.shape = <<mk.num_rows, mk.num_cols>>
        /\ \A i \in 0 .. (mk.num_rows - 1), j \in 0 .. (mk.num_cols - 1) :
               ret.out.val[i + 1][j + 1] = mk.entry_fn[i, j]

\* C7 amended: the result of make_matrix has rows rows of cols entries with
\* entry f(i, j) at every (i, j); its shape is (rows, cols) when rows >= 1 and
\* (0, 0) when rows = 0; identity_matrix(n) has shape (n, n), 1 on the
\* diagonal and 0 elsewhere.
C7_ShapeAmended ==
    /\ ret.op = "make_matrix" =>
           /\ ret.shape = <<mk.num_rows, IF mk.num_rows = 0 THEN 0 ELSE mk.num_cols>>
           /\ Len(ret.out.val) = mk.num_rows
           /\ \A i \in 0 .. (mk.num_rows - 1) :
                  /\ Len(ret.out.val[i + 1]) = mk.num_cols
                  /\ \A j \in 0 .. (mk.num_cols - 1) :
                         ret.out.val[i + 1][j + 1] = mk.entry_fn[i, j]
    /\ ret.op = "identity_matrix" =>
           /\ ret.shape = <<mk.num_rows, mk.num_rows>>
           /\ Len(ret.out.val) = mk.num_rows
           /\ \A i \in 0 .. (mk.num_rows - 1) :
                  /\ Len(ret.out.val[i + 1]) = mk.num_rows
                  /\ \A j \in 0 .. (mk.num_rows - 1) :
                         ret.out.val[i + 1][j + 1] = (IF i = j THEN 1 ELSE 0)

C7_Witness ==
    /\ ret.op = "make_matrix"
    /\ mk.num_rows = 0 /\ mk.num_cols = 2
    /\ ret.shape = <<0, 0>>

\* C8: for integer vectors of equal length, subtract(add(v, w), w) = v.
C8_RoundTrip ==
    (ret.op = "subtract_add" /\ Len(v) = Len(w)) =>
        /\ ret.out.kind = "ok"
        /\ ret.out.val = v

C8_Witness ==
    /\ ret.op = "subtract_add"
    /\ v = <<1, -1>> /\ w = <<1, 1>>
    /\ ret.out.val = <<1, -1>>

\* the elementwise sum (sign = 1) or difference (sign = -1) of two lists
Elementwise(s, t, sign) == [k \in 1 .. Len(s) |-> s[k] + sign * t[k]]

\* C9: for Vectors a and b of equal length, a.add(b, inplace=True) returns
\* None, leaves in a.items the elementwise sum of a's previous items and
\* b's items and changes no other object; a.add(b) returns a new Vector with
\* that sum and changes no object; likewise subtract with the difference;
\* after every call each object's length is the length of its items.
C9_AddSubtractFrame ==
    (ret.op \in {"Vector.add", "Vector.subtract"}
        /\ Len(ret.before[ret.self].items) = Len(ret.before[ret.other].items)) =>
        LET a == ret.self
            b == ret.other
            want == Elementwise(ret.before[a].items, ret.before[b].items,
                                IF ret.op = "Vector.add" THEN 1 ELSE -1)
        IN  /\ ret.out.kind = "ok"
            /\ IF ret.inplace
               THEN /\ ret.out.val = "None"
                    /\ heap[a].items = want
                    /\ \A o \in Objs \ {a} : heap[o] = ret.before[o]
               ELSE /\ ret.out.val.items = want
                    /\ ret.out.val.length = Len(want)
                    /\ heap = ret.before
            /\ \A o \in Objs : heap[o].length = Len(heap[o].items)

C9_Witness ==
    /\ ret.op = "Vector.subtract"
    /\ ret.inplace
    /\ ret.self = "a" /\ ret.other = "b"
    /\ ret.before["a"].items = <<0, 1>> /\ ret.before["b"].items = <<1, 0>>
    /\ heap["a"].items = <<-1, 1>> /\ heap["b"].items = <<1, 0>>

\* C10: every call x.vector_sum(L) on a non-empty list L of Vectors of x's
\* length, a second call with the same list object included, returns the
\* elementwise sum of x.items and the items of the vectors the caller placed
\* in L, and L holds the same vectors after the call as before it.
C10_VectorSumFrame ==
    (/\ ret.op = "Vector.vector_sum"
     /\ ~ret.inplace
     /\ placed # <<>>
     /\ \A k \in 1 .. Len(placed) :
            Len(ret.before[placed[k]].items) = Len(ret.before[ret.self].items)) =>
        /\ ret.out.kind = "ok"
        /\ ret.out.val.items =
               [i \in 1 .. Len(ret.before[ret.self].items) |->
                   ret.before[ret.self].items[i]
                   + sum([k \in 1 .. Len(placed) |-> ret.before[placed[k]].items[i]])]
        /\ lst = ret.list_before
        /\ lst = placed

====
